---- MODULE Spec2Model ----
(***************************************************************************)
(* Model of the SubmitEvidence page (src/app/submit-evidence/page.tsx):    *)
(* the access guard and autofill effect run on mount, the uncontrolled     *)
(* form inputs read through refs, and the handleAddEvidence pipeline       *)
(* (validate, upload, normalise URI, addEvidence, notify, reset).          *)
(***************************************************************************)
EXTENDS Integers, Sequences, FiniteSets, TLC

VARIABLES
    isLoading,        \* useState<boolean>(true)
    isSubmitting,     \* useState<boolean>(false)
    hasAccess,        \* useState<boolean>(false)
    error,            \* useState<string>("")
    file,             \* useState<File[]>([])
    evidenceType,     \* useState<number>(0)
    caseIdRef,        \* caseIdRef.current.value
    evidenceIdRef,    \* evidenceIdRef.current.value, a sequence of characters
    officerNameRef,   \* officerNameRef.current.value
    locationRef,      \* locationRef.current.value
    evidenceDescriptionRef, \* evidenceDescriptionRef.current.value
    checkPc,          \* position of the checkAccess coroutine
    geoPc,            \* getCurrentPosition request: pending, located, failed,
                      \* or idle when navigator has no geolocation
    roleCheck,        \* outcome of isCollectorOrAdmin() (history)
    handlers,         \* handleAddEvidence invocations suspended at an await
    toast,            \* the toast() call made by the last step, or NoToast
    pendingEdits      \* user inputs made since the pending submission began

vars == <<isLoading, isSubmitting, hasAccess, error, file, evidenceType,
          caseIdRef, evidenceIdRef, officerNameRef, locationRef,
          evidenceDescriptionRef, checkPc, geoPc, roleCheck, handlers, toast,
          pendingEdits>>

guardVars == <<isLoading, hasAccess, error, checkPc, roleCheck>>
textVars == <<caseIdRef, evidenceIdRef, officerNameRef, locationRef,
              evidenceDescriptionRef>>
inputVars == <<file, evidenceType, caseIdRef, evidenceIdRef, officerNameRef,
               locationRef, evidenceDescriptionRef>>

----------------------------------------------------------------------------
(* Bounds *)

\* handleAddEvidence invocations that may be suspended at the same time
MaxInFlight == 2

\* user inputs (typing, file or type selection) explored while a submission
\* is pending
MaxPendingEdits == 1

----------------------------------------------------------------------------
(* Input alphabets *)

\* err.message / response.error: "" stands for a missing (falsy) message
Messages == {"", "X"}

CaseIds == {"", "CASE-1"}
OfficerNames == {"", "typed officer"}
StoredName == "stored officer"
Locations == {"", "typed location"}
Coords == "12.5, 77.25"
Descriptions == {"", "a description"}
Files == {<<>>, <<"photo.jpg">>}
\* option values the user picks in the evidence type Select; "" is the
\* placeholder option
PickedTypes == {"", "0", "3", "7"}

\* evidence ID texts the user may type
EvidenceIds ==
    { <<>>,
      <<"9","9","9","9","9">>,
      <<"1","0","0","0","0","0">>,
      <<"9","9","9","9","9","9">>,
      <<"1","0","0","0","0","0","0">>,
      <<"a","b","c">>,
      <<"1","2","3","4","5","6","a","b","c">>,
      <<"0","x","1","8","6","A","0">> }

\* URIs the storage client may return
UploadUris == { [scheme |-> "ipfs", path |-> "abc"],
                [scheme |-> "ipfs", path |-> "def"] }

----------------------------------------------------------------------------
(* Notifications *)

NoToast == [title |-> "", description |-> "", status |-> "none"]

AllFieldsRequired ==
    [title |-> "All fields are required.", description |-> "", status |-> "error"]

InvalidEvidenceId ==
    [title |-> "Invalid Evidence ID",
     description |-> "Evidence ID must be a 6-digit number.",
     status |-> "error"]

SubmittedSuccessfully ==
    [title |-> "Evidence submitted successfully.", description |-> "",
     status |-> "success"]

UnknownError == "An unknown error occurred."

OrUnknown(m) == IF m # "" THEN m ELSE UnknownError

\* a failure notification that ignores response.error
FailedToSubmit_Generic(responseError) ==
    [title |-> "Failed to submit evidence.",
     description |-> UnknownError, status |-> "error"]

FailedToSubmit(responseError) ==
    [title |-> "Failed to submit evidence.",
     description |-> OrUnknown(responseError), status |-> "error"]

\* a catch notification that ignores err.message
ErrorToast_Generic(message) ==
    [title |-> "Error", description |-> UnknownError, status |-> "error"]

ErrorToast(message) ==
    [title |-> "Error", description |-> OrUnknown(message), status |-> "error"]

----------------------------------------------------------------------------
(* parseInt(string) with no radix argument, as ECMAScript defines it *)

DecDigits == <<"0","1","2","3","4","5","6","7","8","9">>
HexLetters == <<"a","b","c","d","e","f">>
HexCapitals == <<"A","B","C","D","E","F">>

IndexIn(c, seq) ==
    IF \E i \in 1..Len(seq) : seq[i] = c
    THEN CHOOSE i \in 1..Len(seq) : seq[i] = c
    ELSE 0

\* value of character c as a digit of radix R, or -1
DigitValue(c, R) ==
    LET d == IF IndexIn(c, DecDigits) # 0 THEN IndexIn(c, DecDigits) - 1
             ELSE IF IndexIn(c, HexLetters) # 0 THEN IndexIn(c, HexLetters) + 9
             ELSE IF IndexIn(c, HexCapitals) # 0 THEN IndexIn(c, HexCapitals) + 9
             ELSE -1
    IN IF d < R THEN d ELSE -1

RECURSIVE TrimStart(_)
TrimStart(s) ==
    IF s # <<>> /\ Head(s) = " " THEN TrimStart(Tail(s)) ELSE s

RECURSIVE DigitPrefix(_, _)
DigitPrefix(s, R) ==
    IF s # <<>> /\ DigitValue(Head(s), R) >= 0
    THEN <<Head(s)>> \o DigitPrefix(Tail(s), R)
    ELSE <<>>

RECURSIVE MathInt(_, _)
MathInt(z, R) ==
    IF z = <<>> THEN 0
    ELSE MathInt(SubSeq(z, 1, Len(z) - 1), R) * R + DigitValue(z[Len(z)], R)

parseInt(string) ==
    LET trimmed == TrimStart(string)
        signed == trimmed # <<>> /\ Head(trimmed) \in {"+", "-"}
        sign == IF trimmed # <<>> /\ Head(trimmed) = "-" THEN -1 ELSE 1
        S == IF signed THEN Tail(trimmed) ELSE trimmed
        hex == Len(S) >= 2 /\ S[1] = "0" /\ S[2] \in {"x", "X"}
        R == IF hex THEN 16 ELSE 10
        body == IF hex THEN SubSeq(S, 3, Len(S)) ELSE S
        Z == DigitPrefix(body, R)
    IN IF Z = <<>>
       THEN [nan |-> TRUE, value |-> 0]
       ELSE [nan |-> FALSE, value |-> sign * MathInt(Z, R)]

isNaN(n) == n.nan

----------------------------------------------------------------------------
(* Rendering *)

\* the component body without its !hasAccess return
View_NoAccessGuard ==
    IF isLoading THEN "loading" ELSE "form"

\* the three returns of the component body
View ==
    IF isLoading THEN "loading"
    ELSE IF ~hasAccess THEN "denied"
    ELSE "form"

\* the inputs and the button exist (refs are non-null) only in the form view
FormRendered == View = "form"

\* text of the Alert in the denied view
AlertText ==
    IF error # "" THEN error
    ELSE "You do not have permission to view this page."

PermissionDenied == "You do not have permission to submit evidence."

\* a Button that is not given isLoading stays clickable while submitting
ButtonEnabled_NotDisabled == View = "form"

\* Button isLoading={isSubmitting}: a loading Button is disabled
ButtonEnabled == FormRendered /\ ~isSubmitting

----------------------------------------------------------------------------
Init ==
    /\ isLoading = TRUE
    /\ isSubmitting = FALSE
    /\ hasAccess = FALSE
    /\ error = ""
    /\ file = <<>>
    /\ evidenceType = 0
    /\ caseIdRef = ""
    /\ evidenceIdRef = <<>>
    /\ officerNameRef = ""
    /\ locationRef = ""
    /\ evidenceDescriptionRef = ""
    /\ checkPc = "role"
    /\ geoPc \in {"pending", "idle"}
    /\ roleCheck = [result |-> "pending", message |-> ""]
    /\ handlers = <<>>
    /\ toast = NoToast
    /\ pendingEdits = 0


----------------------------------------------------------------------------
(* Bookkeeping of the pending-edit bound *)

InputAllowed ==
    /\ FormRendered
    /\ handlers = <<>> \/ pendingEdits < MaxPendingEdits

CountInput == pendingEdits' = IF handlers = <<>> THEN 0 ELSE pendingEdits + 1

\* pendingEdits once an invocation has exited
KeepCount == pendingEdits' = IF handlers' = <<>> THEN 0 ELSE pendingEdits

----------------------------------------------------------------------------
(* checkAccess: the async function started by the mount effect *)

\* a catch block that forgets setIsLoading(false)
CatchAccessError_StaysLoading(message) ==
    /\ error' = OrUnknown(message)
    /\ isLoading' = isLoading
    /\ checkPc' = "done"

\* setError(err.message || "An unknown error occurred."); setIsLoading(false)
CatchAccessError(message) ==
    /\ error' = OrUnknown(message)
    /\ isLoading' = FALSE
    /\ checkPc' = "done"

\* await isCollectorOrAdmin() resolves with access
RoleCheckReturns(access) ==
    /\ checkPc = "role"
    /\ hasAccess' = access
    /\ isLoading' = FALSE
    /\ roleCheck' = [result |-> IF access THEN "granted" ELSE "denied",
                     message |-> ""]
    /\ IF ~access
       THEN /\ error' = PermissionDenied
            /\ checkPc' = "done"
       ELSE /\ error' = error
            /\ checkPc' = "accounts"
    /\ toast' = NoToast
    /\ pendingEdits' = pendingEdits
    /\ UNCHANGED <<isSubmitting, inputVars, geoPc, handlers>>

\* await isCollectorOrAdmin() rejects
RoleCheckThrows(message) ==
    /\ checkPc = "role"
    /\ CatchAccessError(message)
    /\ roleCheck' = [result |-> "threw", message |-> message]
    /\ toast' = NoToast
    /\ pendingEdits' = pendingEdits
    /\ UNCHANGED <<isSubmitting, hasAccess, inputVars, geoPc, handlers>>

\* await window.ethereum.request({method: 'eth_accounts'}) resolves;
\* getName(signerAddress) is called
AccountsReturns ==
    /\ checkPc = "accounts"
    /\ checkPc' = "name"
    /\ toast' = NoToast
    /\ pendingEdits' = pendingEdits
    /\ UNCHANGED <<isLoading, isSubmitting, hasAccess, error, inputVars,
                   geoPc, roleCheck, handlers>>

\* window.ethereum is missing or the request rejects
AccountsThrows(message) ==
    /\ checkPc = "accounts"
    /\ CatchAccessError(message)
    /\ toast' = NoToast
    /\ pendingEdits' = pendingEdits
    /\ UNCHANGED <<isSubmitting, hasAccess, inputVars, geoPc, roleCheck,
                   handlers>>

\* await getName(signerAddress) resolves; name = "" when none is stored
NameReturns(name) ==
    /\ checkPc = "name"
    /\ checkPc' = "done"
    /\ officerNameRef' = IF name # "" /\ FormRendered THEN name
                         ELSE officerNameRef
    /\ toast' = NoToast
    /\ pendingEdits' = pendingEdits
    /\ UNCHANGED <<isLoading, isSubmitting, hasAccess, error, file,
                   evidenceType, caseIdRef, evidenceIdRef, locationRef,
                   evidenceDescriptionRef, geoPc, roleCheck, handlers>>

\* await getName(signerAddress) rejects
NameThrows(message) ==
    /\ checkPc = "name"
    /\ CatchAccessError(message)
    /\ toast' = NoToast
    /\ pendingEdits' = pendingEdits
    /\ UNCHANGED <<isSubmitting, hasAccess, inputVars, geoPc, roleCheck,
                   handlers>>

----------------------------------------------------------------------------
(* getLocation: navigator.geolocation.getCurrentPosition, called on mount *)

\* success callback
PositionCallback(coords) ==
    /\ geoPc = "pending"
    /\ geoPc' = "located"
    /\ locationRef' = IF FormRendered THEN coords ELSE locationRef
    /\ toast' = NoToast
    /\ pendingEdits' = pendingEdits
    /\ UNCHANGED <<guardVars, isSubmitting, file, evidenceType, caseIdRef,
                   evidenceIdRef, officerNameRef, evidenceDescriptionRef,
                   handlers>>

\* error callback: console.error only
PositionErrorCallback ==
    /\ geoPc = "pending"
    /\ geoPc' = "failed"
    /\ toast' = NoToast
    /\ pendingEdits' = pendingEdits
    /\ UNCHANGED <<guardVars, isSubmitting, inputVars, handlers>>

----------------------------------------------------------------------------
(* User input on the rendered form *)

TypeCaseId(v) ==
    /\ InputAllowed
    /\ CountInput
    /\ caseIdRef # v
    /\ caseIdRef' = v
    /\ toast' = NoToast
    /\ UNCHANGED <<guardVars, isSubmitting, geoPc, handlers, file,
                   evidenceType, evidenceIdRef, officerNameRef, locationRef,
                   evidenceDescriptionRef>>

TypeEvidenceId(v) ==
    /\ InputAllowed
    /\ CountInput
    /\ evidenceIdRef # v
    /\ evidenceIdRef' = v
    /\ toast' = NoToast
    /\ UNCHANGED <<guardVars, isSubmitting, geoPc, handlers, file,
                   evidenceType, caseIdRef, officerNameRef, locationRef,
                   evidenceDescriptionRef>>

TypeOfficerName(v) ==
    /\ InputAllowed
    /\ CountInput
    /\ officerNameRef # v
    /\ officerNameRef' = v
    /\ toast' = NoToast
    /\ UNCHANGED <<guardVars, isSubmitting, geoPc, handlers, file,
                   evidenceType, caseIdRef, evidenceIdRef, locationRef,
                   evidenceDescriptionRef>>

TypeLocation(v) ==
    /\ InputAllowed
    /\ CountInput
    /\ locationRef # v
    /\ locationRef' = v
    /\ toast' = NoToast
    /\ UNCHANGED <<guardVars, isSubmitting, geoPc, handlers, file,
                   evidenceType, caseIdRef, evidenceIdRef, officerNameRef,
                   evidenceDescriptionRef>>

TypeDescription(v) ==
    /\ InputAllowed
    /\ CountInput
    /\ evidenceDescriptionRef # v
    /\ evidenceDescriptionRef' = v
    /\ toast' = NoToast
    /\ UNCHANGED <<guardVars, isSubmitting, geoPc, handlers, file,
                   evidenceType, caseIdRef, evidenceIdRef, officerNameRef,
                   locationRef>>

\* file input onChange: setFile(e.target.files ? Array.from(e.target.files) : [])
SelectFile(files) ==
    /\ InputAllowed
    /\ CountInput
    /\ file # files
    /\ file' = files
    /\ toast' = NoToast
    /\ UNCHANGED <<guardVars, isSubmitting, geoPc, handlers, evidenceType,
                   textVars>>

\* the value attributes of the eight options of the evidence type Select
EvidenceTypeOptions == <<"0", "1", "2", "3", "4", "5", "6", "7">>

\* Number(e.target.value) for an option value: Number("") is 0
Number(value) ==
    IF value = "" THEN 0 ELSE IndexIn(value, DecDigits) - 1

\* Select onChange: setEvidenceType(Number(e.target.value))
SelectEvidenceType(value) ==
    /\ InputAllowed
    /\ CountInput
    /\ value = "" \/ IndexIn(value, EvidenceTypeOptions) # 0
    /\ evidenceType # Number(value)
    /\ evidenceType' = Number(value)
    /\ toast' = NoToast
    /\ UNCHANGED <<guardVars, isSubmitting, geoPc, handlers, file, textVars>>

----------------------------------------------------------------------------
(* handleAddEvidence *)

NoArgs ==
    [caseId |-> "", evidenceId |-> 0, officerName |-> "", location |-> "",
     description |-> "", ipfsLink |-> [scheme |-> "", path |-> ""],
     evidenceType |-> 0]

NoUri == [scheme |-> "", path |-> ""]

\* the input values read by the checks of lines 95-114 (history)
CheckedInputs ==
    [caseId |-> caseIdRef,
     officerName |-> officerNameRef,
     location |-> locationRef,
     description |-> evidenceDescriptionRef,
     evidenceType |-> evidenceType]

\* the required-field test without its file.length === 0 disjunct
AnyFieldMissing_NoFileCheck ==
    \/ caseIdRef = ""
    \/ evidenceIdRef = <<>>
    \/ officerNameRef = ""
    \/ locationRef = ""
    \/ evidenceDescriptionRef = ""

\* the required-field test of lines 95-102
AnyFieldMissing ==
    \/ caseIdRef = ""
    \/ evidenceIdRef = <<>>
    \/ officerNameRef = ""
    \/ locationRef = ""
    \/ evidenceDescriptionRef = ""
    \/ Len(file) = 0

\* isNaN(evidenceId) || evidenceId < 100000 || evidenceId > 999999
EvidenceIdRejected(evidenceId) ==
    \/ isNaN(evidenceId)
    \/ evidenceId.value < 100000
    \/ evidenceId.value > 999999

\* convertIPFSUriToUrl from @/utils/helpers
convertIPFSUriToUrl(uri) ==
    IF uri.scheme = "ipfs"
    THEN [scheme |-> "https", path |-> uri.path]
    ELSE uri

RemoveAt(seq, i) == SubSeq(seq, 1, i - 1) \o SubSeq(seq, i + 1, Len(seq))

\* arguments that take the evidence type current at the call, as if it
\* were read through a ref
AddEvidenceArgs_LiveType(h, ipfsLink) ==
    [caseId |-> caseIdRef,
     evidenceId |-> h.evidenceId,
     officerName |-> officerNameRef,
     location |-> locationRef,
     description |-> evidenceDescriptionRef,
     ipfsLink |-> ipfsLink,
     evidenceType |-> evidenceType]

\* the arguments of the addEvidence call of lines 129-137: the refs are read
\* when the call is made, evidenceId, file and evidenceType come from the
\* invocation's closure
AddEvidenceArgs(h, ipfsLink) ==
    [caseId |-> caseIdRef,
     evidenceId |-> h.evidenceId,
     officerName |-> officerNameRef,
     location |-> locationRef,
     description |-> evidenceDescriptionRef,
     ipfsLink |-> ipfsLink,
     evidenceType |-> h.evidenceType]

\* click on the submit button: the synchronous part of the handler, up to
\* the upload({data: file}) call of uploadDataToIPFS
HandleAddEvidence ==
    /\ ButtonEnabled
    /\ Len(handlers) < MaxInFlight
    /\ IF AnyFieldMissing
       THEN /\ toast' = AllFieldsRequired
            /\ isSubmitting' = FALSE
            /\ handlers' = handlers
       ELSE LET evidenceId == parseInt(evidenceIdRef)
            IN IF EvidenceIdRejected(evidenceId)
               THEN /\ toast' = InvalidEvidenceId
                    /\ isSubmitting' = FALSE
                    /\ handlers' = handlers
               ELSE /\ toast' = NoToast
                    /\ isSubmitting' = TRUE
                    /\ handlers' = Append(handlers,
                          [pc |-> "upload",
                           evidenceId |-> evidenceId.value,
                           data |-> file,
                           evidenceType |-> evidenceType,
                           checked |-> CheckedInputs,
                           uploaded |-> NoUri,
                           args |-> NoArgs])
    /\ pendingEdits' = 0
    /\ UNCHANGED <<guardVars, geoPc, inputVars>>

\* a continuation that passes the uploaded URI on without line 127
UploadResolves_RawUri(i, uri) ==
    /\ i \in 1..Len(handlers)
    /\ handlers[i].pc = "upload"
    /\ handlers' = [handlers EXCEPT ![i] =
          [@ EXCEPT !.pc = "addEvidence",
                    !.uploaded = uri,
                    !.args = AddEvidenceArgs(handlers[i], uri)]]
    /\ toast' = NoToast
    /\ pendingEdits' = pendingEdits
    /\ UNCHANGED <<guardVars, geoPc, inputVars, isSubmitting>>

\* await upload(...) resolves with uris; the URI is normalised and
\* addEvidence is called
UploadResolves(i, uri) ==
    /\ i \in 1..Len(handlers)
    /\ handlers[i].pc = "upload"
    /\ handlers' = [handlers EXCEPT ![i] =
          [@ EXCEPT !.pc = "addEvidence",
                    !.uploaded = uri,
                    !.args = AddEvidenceArgs(handlers[i],
                                             convertIPFSUriToUrl(uri))]]
    /\ toast' = NoToast
    /\ pendingEdits' = pendingEdits
    /\ UNCHANGED <<guardVars, geoPc, inputVars, isSubmitting>>

\* the catch block without the finally block
CatchAndFinally_NoFinally(i, message) ==
    /\ toast' = ErrorToast(message)
    /\ isSubmitting' = isSubmitting
    /\ handlers' = RemoveAt(handlers, i)
    /\ KeepCount
    /\ UNCHANGED <<guardVars, geoPc, inputVars>>

\* catch (err) { toast Error } finally { setIsSubmitting(false) }
CatchAndFinally(i, message) ==
    /\ toast' = ErrorToast(message)
    /\ isSubmitting' = FALSE
    /\ handlers' = RemoveAt(handlers, i)
    /\ KeepCount
    /\ UNCHANGED <<guardVars, geoPc, inputVars>>

\* await upload(...) rejects
UploadRejects(i, message) ==
    /\ i \in 1..Len(handlers)
    /\ handlers[i].pc = "upload"
    /\ CatchAndFinally(i, message)

\* upload resolved but uris[0] / convertIPFSUriToUrl throws
NormalizeThrows(i, message) ==
    /\ i \in 1..Len(handlers)
    /\ handlers[i].pc = "upload"
    /\ CatchAndFinally(i, message)

\* await addEvidence(...) rejects
AddEvidenceRejects(i, message) ==
    /\ i \in 1..Len(handlers)
    /\ handlers[i].pc = "addEvidence"
    /\ CatchAndFinally(i, message)

\* a success branch that resets every text input
AddEvidenceSucceeds_ClearsAll(i) ==
    /\ i \in 1..Len(handlers)
    /\ handlers[i].pc = "addEvidence"
    /\ toast' = SubmittedSuccessfully
    /\ caseIdRef' = ""
    /\ evidenceIdRef' = <<>>
    /\ evidenceDescriptionRef' = ""
    /\ officerNameRef' = ""
    /\ locationRef' = ""
    /\ file' = <<>>
    /\ evidenceType' = 0
    /\ isSubmitting' = FALSE
    /\ handlers' = RemoveAt(handlers, i)
    /\ KeepCount
    /\ UNCHANGED <<guardVars, geoPc>>

\* await addEvidence(...) resolves with {status: true}
AddEvidenceSucceeds(i) ==
    /\ i \in 1..Len(handlers)
    /\ handlers[i].pc = "addEvidence"
    /\ toast' = SubmittedSuccessfully
    /\ caseIdRef' = ""
    /\ evidenceIdRef' = <<>>
    /\ evidenceDescriptionRef' = ""
    /\ file' = <<>>
    /\ evidenceType' = 0
    /\ isSubmitting' = FALSE
    /\ handlers' = RemoveAt(handlers, i)
    /\ KeepCount
    /\ UNCHANGED <<guardVars, geoPc, officerNameRef, locationRef>>

\* a failure branch that resets the form as the success branch does
AddEvidenceFails_ResetsForm(i, responseError) ==
    /\ i \in 1..Len(handlers)
    /\ handlers[i].pc = "addEvidence"
    /\ toast' = FailedToSubmit(responseError)
    /\ caseIdRef' = ""
    /\ evidenceIdRef' = <<>>
    /\ evidenceDescriptionRef' = ""
    /\ file' = <<>>
    /\ evidenceType' = 0
    /\ isSubmitting' = FALSE
    /\ handlers' = RemoveAt(handlers, i)
    /\ KeepCount
    /\ UNCHANGED <<guardVars, geoPc, officerNameRef, locationRef>>

\* await addEvidence(...) resolves with {status: false, error}
AddEvidenceFails(i, responseError) ==
    /\ i \in 1..Len(handlers)
    /\ handlers[i].pc = "addEvidence"
    /\ toast' = FailedToSubmit(responseError)
    /\ isSubmitting' = FALSE
    /\ handlers' = RemoveAt(handlers, i)
    /\ KeepCount
    /\ UNCHANGED <<guardVars, geoPc, inputVars>>

----------------------------------------------------------------------------
Next ==
    \/ \E access \in BOOLEAN : RoleCheckReturns(access)
    \/ \E m \in Messages : RoleCheckThrows(m)
    \/ AccountsReturns
    \/ \E m \in Messages : AccountsThrows(m)
    \/ \E name \in {"", StoredName} : NameReturns(name)
    \/ \E m \in Messages : NameThrows(m)
    \/ PositionCallback(Coords)
    \/ PositionErrorCallback
    \/ \E v \in CaseIds : TypeCaseId(v)
    \/ \E v \in EvidenceIds : TypeEvidenceId(v)
    \/ \E v \in OfficerNames : TypeOfficerName(v)
    \/ \E v \in Locations : TypeLocation(v)
    \/ \E v \in Descriptions : TypeDescription(v)
    \/ \E files \in Files : SelectFile(files)
    \/ \E value \in PickedTypes : SelectEvidenceType(value)
    \/ HandleAddEvidence
    \/ \E i \in 1..MaxInFlight, uri \in UploadUris : UploadResolves(i, uri)
    \/ \E i \in 1..MaxInFlight, m \in Messages : UploadRejects(i, m)
    \/ \E i \in 1..MaxInFlight, m \in Messages : NormalizeThrows(i, m)
    \/ \E i \in 1..MaxInFlight, m \in Messages : AddEvidenceRejects(i, m)
    \/ \E i \in 1..MaxInFlight : AddEvidenceSucceeds(i)
    \/ \E i \in 1..MaxInFlight, e \in Messages : AddEvidenceFails(i, e)

Spec == Init /\ [][Next]_vars

\* every external operation of a submission eventually resolves or rejects
Completes ==
    \E i \in 1..MaxInFlight :
        \/ \E uri \in UploadUris : UploadResolves(i, uri)
        \/ \E m \in Messages : UploadRejects(i, m)
        \/ \E m \in Messages : AddEvidenceRejects(i, m)
        \/ AddEvidenceSucceeds(i)
        \/ \E e \in Messages : AddEvidenceFails(i, e)

FairSpec == Spec /\ WF_vars(Completes)

TypeOK ==
    /\ isLoading \in BOOLEAN /\ isSubmitting \in BOOLEAN /\ hasAccess \in BOOLEAN
    /\ Len(handlers) <= MaxInFlight

----------------------------------------------------------------------------
(* Properties of the submission pipeline and the access guard *)

InFlight(i) == i \in 1..Len(handlers)

\* a decimal numeral: one or more digits 0-9 and nothing else
IsDecimalNumeral(s) ==
    /\ s # <<>>
    /\ \A k \in 1..Len(s) : \E d \in 1..10 : DecDigits[d] = s[k]

SixDigit(n) == n >= 100000 /\ n <= 999999

\* some required input is empty, stated on the inputs themselves
SomeInputEmpty ==
    \E v \in {caseIdRef, officerNameRef, locationRef, evidenceDescriptionRef} :
        v = ""

NothingSelected == evidenceIdRef = <<>> \/ file = <<>>

\* C1: whenever addEvidence has been invoked, the values passed to it are a
\* non-empty case ID, officer name, location and description, a 6-digit
\* evidence ID, and exactly one file was uploaded for it.
C1_RegistryCallValidated ==
    \A i \in 1..Len(handlers) :
        handlers[i].pc = "addEvidence" =>
            /\ handlers[i].args.caseId # ""
            /\ handlers[i].args.officerName # ""
            /\ handlers[i].args.location # ""
            /\ handlers[i].args.description # ""
            /\ Len(handlers[i].data) = 1
            /\ SixDigit(handlers[i].args.evidenceId)

\* C2: a submit click with every other input filled and an evidence ID that
\* is not a numeral, or whose value is outside 100000..999999, shows the
\* "Invalid Evidence ID" notification and starts neither upload nor registry
\* call.
C2_MalformedIdRejected ==
    [][ ( /\ HandleAddEvidence
          /\ ~SomeInputEmpty /\ ~NothingSelected
          /\ \/ ~IsDecimalNumeral(evidenceIdRef)
             \/ ~SixDigit(MathInt(evidenceIdRef, 10)) )
        => ( /\ toast' = InvalidEvidenceId
             /\ toast' # AllFieldsRequired
             /\ handlers' = handlers ) ]_vars

\* C3: a submit click with at least one required input empty or no file
\* selected shows the generic "All fields are required." notification and
\* starts neither upload nor registry call.
C3_MissingFieldRejected ==
    [][ (HandleAddEvidence /\ (SomeInputEmpty \/ NothingSelected))
        => ( /\ toast'.title = "All fields are required."
             /\ toast'.status = "error"
             /\ handlers' = handlers
             /\ ~isSubmitting' ) ]_vars

C3_Witness ==
    /\ toast.title = "All fields are required."
    /\ SomeInputEmpty \/ NothingSelected
    /\ handlers = <<>>

\* C4: at most one submission is in flight at any time, and while it is the
\* submitting flag is set, so no second upload or registry call is started
\* before the first completes.
C4_NoDuplicateSubmission ==
    /\ Len(handlers) <= 1
    /\ handlers # <<>> => isSubmitting

C4_Witness ==
    /\ Len(handlers) = 1
    /\ handlers[1].pc = "addEvidence"
    /\ isSubmitting

\* C5: once isCollectorOrAdmin has returned false the page shows the
\* permission-denied message, the form is not rendered and no submission
\* exists, whatever the inputs.
C5_DeniedNeverRendersForm ==
    roleCheck.result = "denied" =>
        /\ View = "denied"
        /\ AlertText = "You do not have permission to submit evidence."
        /\ ~FormRendered
        /\ handlers = <<>>
        /\ ~isSubmitting

C5_Witness ==
    /\ roleCheck.result = "denied"
    /\ View = "denied"
    /\ geoPc = "idle"

\* C6: every submission that set the submitting flag eventually reaches a
\* state where the flag is clear, nothing is in flight and submit is enabled.
C6_SubmittingEventuallyCleared ==
    isSubmitting ~> (~isSubmitting /\ handlers = <<>> /\ FormRendered)

C6_Witness ==
    /\ toast.status \in {"success", "error"}
    /\ toast.title \notin {"All fields are required.", "Invalid Evidence ID"}
    /\ ~isSubmitting
    /\ handlers = <<>>

\* C7: the step that shows the success notification leaves case ID, evidence
\* ID, description and the file selection empty and does not change officer
\* name or location.
C7_SuccessResetsForm ==
    [][ (\E i \in 1..MaxInFlight : AddEvidenceSucceeds(i))
        => ( /\ caseIdRef' = ""
             /\ evidenceIdRef' = <<>>
             /\ evidenceDescriptionRef' = ""
             /\ file' = <<>>
             /\ officerNameRef' = officerNameRef
             /\ locationRef' = locationRef ) ]_vars

C7_Witness ==
    /\ toast.status = "success"
    /\ caseIdRef = "" /\ evidenceIdRef = <<>> /\ file = <<>>
    /\ officerNameRef # "" /\ locationRef # ""

\* C8: when addEvidence returns a non-success status the notification's
\* description is the returned error message, or the generic fallback when
\* there is none, and the notification is not a success notification.
C8_ReportedFailureMessage ==
    [][ \A i \in 1..MaxInFlight, e \in Messages :
          AddEvidenceFails(i, e)
          => ( /\ toast'.description =
                    (IF e # "" THEN e ELSE "An unknown error occurred.")
               /\ toast'.status = "error" ) ]_vars

C8_Witness ==
    /\ toast.title = "Failed to submit evidence."
    /\ toast.description = "X"

Thrown(i, m) ==
    UploadRejects(i, m) \/ NormalizeThrows(i, m) \/ AddEvidenceRejects(i, m)

C10_RoleCheckErrorIsDenial ==
    roleCheck.result = "threw" =>
        /\ ~isLoading
        /\ View = "denied"
        /\ AlertText = (IF roleCheck.message # "" THEN roleCheck.message
                        ELSE "An unknown error occurred.")
        /\ ~FormRendered

C10_Witness ==
    /\ roleCheck.result = "threw"
    /\ roleCheck.message = "X"
    /\ AlertText = "X"

\* C11: a geolocation request or a name-resolution request has been issued
\* only if the role check has returned granted; none is ever issued when the
\* check returned denied or threw.
C11_AutofillOnlyAfterGrant ==
    (geoPc \in {"pending", "located", "failed"} \/ checkPc = "name")
        => roleCheck.result = "granted"

\* C12: at the step that completes the later of a granted role check and a
\* successful geolocation callback, in either order, the location field holds
\* the "latitude, longitude" text; a geolocation error leaves the location
\* field as it was.
C12_LocationPopulated ==
    [][ /\ ( /\ roleCheck'.result = "granted" /\ geoPc' = "located"
             /\ ~(roleCheck.result = "granted" /\ geoPc = "located") )
           => locationRef' = Coords
        /\ PositionErrorCallback => locationRef' = locationRef ]_vars

AutofillFails ==
    \/ \E m \in Messages : AccountsThrows(m) \/ NameThrows(m)
    \/ PositionErrorCallback

\* C13: once access is granted, a failing account lookup, name lookup or
\* geolocation request leaves access granted and the form rendered, does not
\* change the stored denial-reason text or any input, and shows no
\* notification.
C13_AutofillErrorsSwallowed ==
    [][ (hasAccess /\ AutofillFails)
        => ( /\ hasAccess'
             /\ FormRendered'
             /\ error' = error
             /\ toast' = NoToast
             /\ UNCHANGED inputVars ) ]_vars

\* C14: an invocation still uploading has made no registry call; one that
\* has called addEvidence did so after its own upload returned a URI, and
\* passed the https form of that URI, not the URI as returned.
C14_UploadNormalizeRegister ==
    \A i \in 1..Len(handlers) :
        /\ handlers[i].pc = "upload" =>
              /\ handlers[i].uploaded = NoUri
              /\ handlers[i].args = NoArgs
        /\ handlers[i].pc = "addEvidence" =>
              /\ handlers[i].uploaded \in UploadUris
              /\ handlers[i].args.ipfsLink =
                    [scheme |-> "https", path |-> handlers[i].uploaded.path]
              /\ handlers[i].args.ipfsLink # handlers[i].uploaded

C14_Witness ==
    /\ Len(handlers) = 1
    /\ handlers[1].pc = "addEvidence"
    /\ handlers[1].uploaded = [scheme |-> "ipfs", path |-> "def"]
    /\ handlers[1].args.ipfsLink.scheme = "https"

\* C15: the case ID, officer name, location and description passed to
\* addEvidence are the values the fields held when the submit click checked
\* them.
C15_RecordIsWhatWasChecked ==
    \A i \in 1..Len(handlers) :
        handlers[i].pc = "addEvidence" =>
            /\ handlers[i].args.caseId = handlers[i].checked.caseId
            /\ handlers[i].args.officerName = handlers[i].checked.officerName
            /\ handlers[i].args.location = handlers[i].checked.location
            /\ handlers[i].args.description = handlers[i].checked.description

\* C16: a step that ends a submission with an error notification (missing
\* field, invalid evidence ID, registry-reported failure, thrown error)
\* changes none of case ID, evidence ID, officer name, location, description,
\* file selection and evidence category.
C16_FailedExitKeepsInputs ==
    [][ toast'.status = "error"
        => ( /\ caseIdRef' = caseIdRef
             /\ evidenceIdRef' = evidenceIdRef
             /\ officerNameRef' = officerNameRef
             /\ locationRef' = locationRef
             /\ evidenceDescriptionRef' = evidenceDescriptionRef
             /\ file' = file
             /\ evidenceType' = evidenceType ) ]_vars

C16_Witness ==
    /\ toast.title = "Failed to submit evidence."
    /\ caseIdRef # "" /\ evidenceIdRef # <<>> /\ evidenceDescriptionRef # ""
    /\ file # <<>>
    /\ evidenceType # 0

\* C17: the evidence category is always one of 0..7, the category passed to
\* addEvidence is the one that was selected at the submit click, and right
\* after a successful submission the category is 0.
C17_EvidenceCategory ==
    /\ evidenceType \in 0..7
    /\ \A i \in 1..Len(handlers) :
          /\ handlers[i].checked.evidenceType \in 0..7
          /\ handlers[i].pc = "addEvidence" =>
                handlers[i].args.evidenceType = handlers[i].checked.evidenceType
    /\ toast.status = "success" => evidenceType = 0

C17_Witness ==
    /\ Len(handlers) = 1
    /\ handlers[1].pc = "addEvidence"
    /\ handlers[1].args.evidenceType = 7
    /\ evidenceType = 3

====
